---- MODULE Spec2Model ----
(***************************************************************************)
(* Request lifecycle of the marbix strategy service: the submission        *)
(* endpoint (api/v1/make.py), the job record store                         *)
(* (services/make_service.py over models/make_request.py), the ARQ job     *)
(* queue and worker (worker.py), the legacy callbacks (api/v1/make.py) and *)
(* the push notifier (core/websocket.py).                                  *)
(*                                                                         *)
(* The API process and the worker process are separate processes: they     *)
(* share the make_requests table and the redis queue, and each imports its *)
(* own ConnectionManager instance (core/websocket.py:201).                 *)
(***************************************************************************)
EXTENDS Integers, Sequences, FiniteSets, TLC

\* ------------------------------------------------------------------ bounds
MaxSubmissions == 1      \* POST /strategy calls explored
MaxCallbacks == 1        \* legacy callback calls explored
MaxRestarts == 1         \* worker process restarts explored
MaxConns == 1            \* websocket connections explored
MaxReconnects == 1       \* further connections explored by the reconnect slice
MaxSends == 51           \* direct send_message calls explored per request_id
MaxLiveSends == 1        \* of these, calls explored once a client has connected

\* --------------------------------------------------------------- constants
ARQ_MAX_TRIES == 3       \* core/config.py:66
CacheCap == 50           \* core/websocket.py:71

Submissions == 1..MaxSubmissions
Conns == 1..(MaxConns + MaxReconnects)   \* numbered in the order they connect
FirstConns == 1..MaxConns
NoConn == 0
RequestIds == 1..MaxSubmissions      \* uuid4 values handed out so far / later
EmptyId == 0                         \* request_id="" in a response
NULL == "NULL"                       \* Python None / SQL NULL
API == "api"
WORKER == "worker"
Procs == {API, WORKER}

TerminalStatuses == {"completed", "failed", "error"}

VARIABLES
    records,            \* make_requests table: request_id -> row
    next_uuid,          \* number of uuid4 values drawn by process_request
    sub,                \* process_request invocations
    job,                \* redis: per request_id "none" | "queued" | "running"
    tries,              \* redis: job_try counter per request_id
    worker,             \* the generate_strategy invocation of the worker process
    restarts,           \* worker process restarts so far
    callbacks,          \* legacy callback requests handled so far
    active_connections, \* API manager: request_id -> connection (0 = absent)
    connection_timestamps, \* API manager: request_id -> has a connect time
    cached_messages,    \* per process manager: request_id -> list of messages
    send_count,         \* per process manager: send_message calls per request_id
    conn,               \* websocket_endpoint invocations and what their client received
    client,             \* one call of a stage client (agents/), step by step
    polls               \* the last GET /status/{request_id} call and its answer

vars == <<records, next_uuid, sub, job, tries, worker, restarts, callbacks,
          active_connections, connection_timestamps, cached_messages,
          send_count, conn, client, polls>>

\* ------------------------------------------------------ job record store
\* aged: created_at lies before the cutoff date of the retention sweep
NoRecord == [status |-> "absent", result |-> NULL, error |-> NULL,
             sources |-> NULL, completed_at |-> FALSE, aged |-> FALSE]

HasRecord(r) == records[r].status # "absent"

\* MakeService.create_request_record: a new row with the given status
NewRecord(initial_status) ==
    [status |-> initial_status, result |-> NULL, error |-> NULL,
     sources |-> NULL, completed_at |-> FALSE, aged |-> FALSE]

\* MakeService.update_request_status applied to an existing row
UpdatedStatus(row, status, result, error, sources) ==
    [status |-> status,
     result |-> IF result # NULL THEN result ELSE row.result,
     error |-> IF error # NULL THEN error ELSE row.error,
     sources |-> IF sources # NULL THEN sources ELSE row.sources,
     completed_at |-> IF status \in {"completed", "failed", "error"}
                       THEN TRUE ELSE row.completed_at,
     aged |-> row.aged]

\* MakeService.update_request_sources applied to an existing row
UpdatedSources(row, sources) == [row EXCEPT !.sources = sources]

\* ---------------------------------------------------------- push notifier
\* A message dict whose builder sets "timestamp" itself
Msg(type, status, result, sources) ==
    [type |-> type, status |-> status, result |-> result, sources |-> sources,
     timestamp |-> TRUE]

\* WebSocketMessage(...).dict() of the callback handlers: no type, no timestamp
CallbackMsg(status, result) ==
    [type |-> "none", status |-> status, result |-> result, sources |-> NULL,
     timestamp |-> FALSE]

LastN(s, n) == IF Len(s) > n THEN SubSeq(s, Len(s) - n + 1, Len(s)) ELSE s

\* ConnectionManager.send_message, the caching part: append, keep the last 50
CacheAppend_Unbounded(cache, m) == Append(cache, m)

CacheAppend(cache, m) == LastN(Append(cache, m), CacheCap)

\* The manager state of one process as a value, so that a handler that sends
\* several messages in a row can thread it through:
\*   ac    active_connections (only the API process accepts websockets)
\*   ts    connection_timestamps
\*   cache cached_messages of that process
\*   cnt   send_message calls per request_id (the message timestamp)
\*   cn    the connection handlers (their clients' received lists)
\*   raised TRUE when the last send_message raised
Mgr(p) == [ac |-> IF p = API THEN active_connections
                   ELSE [r \in RequestIds |-> NoConn],
           ts |-> IF p = API THEN connection_timestamps
                   ELSE [r \in RequestIds |-> FALSE],
           cache |-> cached_messages[p], cnt |-> send_count[p], cn |-> conn,
           raised |-> FALSE]

\* websocket.py:61-63: the message as it is cached and sent: the timestamp is
\* added when the caller gave none.  n numbers the send_message calls.
Stamp(M, r, m) == [type |-> m.type, status |-> m.status, result |-> m.result,
                   sources |-> m.sources,
                   timestamp |-> IF ~m.timestamp THEN TRUE ELSE m.timestamp,
                   n |-> M.cnt[r] + 1]

\* ConnectionManager.disconnect on a manager value
Disconnected(M, r) ==
    IF M.ac[r] # NoConn THEN [M EXCEPT !.ac[r] = NoConn, !.ts[r] = FALSE] ELSE M

\* A replay loop that iterates the cache list of r keeps iterating the old
\* list object when send_message rebinds cached_messages[r] to a trimmed copy.
Rebound(M, r, oldlist) ==
    [c \in Conns |->
        IF M.cn[c].pc = "replay" /\ M.cn[c].rid = r /\ M.cn[c].list = "live"
        THEN [M.cn[c] EXCEPT !.list = "old", !.old = oldlist]
        ELSE M.cn[c]]

\* ConnectionManager.send_message(r, m); ok is the outcome of
\* websocket.send_json when a connection is registered.
SendMessage_KeepsReference(M, r, m, ok) ==
    LET sm == Stamp(M, r, m)
        appended == Append(M.cache[r], sm)
        trimmed == Len(appended) > CacheCap
        M1 == [M EXCEPT !.cache[r] = CacheAppend(M.cache[r], sm),
                        !.cnt[r] = @ + 1,
                        !.cn = IF trimmed THEN Rebound(M, r, appended) ELSE M.cn,
                        !.raised = FALSE]
        c == M.ac[r]
    IN  IF c = NoConn THEN M1
        ELSE IF ok THEN [M1 EXCEPT !.cn[c].received = Append(@, sm)]
        ELSE [M1 EXCEPT !.raised = TRUE, !.cn[c].io_ok = FALSE]

SendMessage(M, r, m, ok) ==
    LET sm == Stamp(M, r, m)
        appended == Append(M.cache[r], sm)
        trimmed == Len(appended) > CacheCap
        M1 == [M EXCEPT !.cache[r] = CacheAppend(M.cache[r], sm),
                        !.cnt[r] = @ + 1,
                        !.cn = IF trimmed THEN Rebound(M, r, appended) ELSE M.cn,
                        !.raised = FALSE]
        c == M.ac[r]
    IN  IF c = NoConn THEN M1
        ELSE IF ok THEN [M1 EXCEPT !.cn[c].received = Append(@, sm)]
        ELSE [Disconnected(M1, r) EXCEPT !.raised = TRUE, !.cn[c].io_ok = FALSE]

\* Store a manager value of process p back into the variables
StoreMgr(p, M) ==
    /\ cached_messages' = [cached_messages EXCEPT ![p] = M.cache]
    /\ send_count' = [send_count EXCEPT ![p] = M.cnt]
    /\ IF p = API
       THEN /\ active_connections' = M.ac
            /\ connection_timestamps' = M.ts
            /\ conn' = M.cn
       ELSE UNCHANGED <<active_connections, connection_timestamps, conn>>

UnchangedMgr == UNCHANGED <<active_connections, connection_timestamps,
                            cached_messages, send_count, conn>>

\* -------------------------------------------------------------- Init
NewSub == [pc |-> "start", filter |-> "none", rid |-> EmptyId,
           created |-> FALSE, enqueued |-> FALSE,
           resp_rid |-> EmptyId, resp_status |-> "none",
           ret_status |-> "absent", ret_job |-> "none"]

\* raised records, for the claims, the message of the exception the last
\* invocation re-raised to the job queue ("" when it raised none).
IdleWorker == [pc |-> "idle", rid |-> EmptyId, db |-> FALSE,
               sources_text |-> "", raised |-> ""]

\* pre, io_ok, known and at_connect record, for the claims, the cache found
\* at connect time, whether every send_json on this websocket succeeded so
\* far, whether the request_id had been returned by POST /strategy at connect
\* time, and the status of the record at connect time.
NewConn == [pc |-> "new", rid |-> EmptyId, i |-> 0, list |-> "live",
            old |-> <<>>, received |-> <<>>, last_status |-> "none",
            poll |-> "none", pre |-> <<>>, io_ok |-> TRUE,
            known |-> FALSE, at_connect |-> "none"]

\* A stage client call not yet made.  responses lists the outcomes of the
\* HTTP requests made so far, delays the asyncio.sleep durations in seconds.
NewClient == [pc |-> "idle", kind |-> "none", attempt |-> 0, posts |-> 0,
              responses |-> <<>>, delays |-> <<>>,
              success |-> FALSE, error |-> ""]

\* No GET /status call made yet.  found and seen record, for the claims,
\* whether the record existed when the call was made and its status then.
NoPoll == [rid |-> EmptyId, caller |-> "none", code |-> 0, body |-> "none",
           found |-> FALSE, seen |-> "absent"]

Init ==
    /\ records = [r \in RequestIds |-> NoRecord]
    /\ next_uuid = 0
    /\ sub = [s \in Submissions |-> NewSub]
    /\ job = [r \in RequestIds |-> "none"]
    /\ tries = [r \in RequestIds |-> 0]
    /\ worker = IdleWorker
    /\ restarts = 0
    /\ callbacks = 0
    /\ active_connections = [r \in RequestIds |-> NoConn]
    /\ connection_timestamps = [r \in RequestIds |-> FALSE]
    /\ cached_messages = [p \in Procs |-> [r \in RequestIds |-> <<>>]]
    /\ send_count = [p \in Procs |-> [r \in RequestIds |-> 0]]
    /\ conn = [c \in Conns |-> NewConn]
    /\ client = NewClient
    /\ polls = NoPoll

\* ------------------------------------------- POST /strategy (process_request)
\* The response of process_request s, with the record status and the queue
\* entry of its request as they are when the response is returned.
Respond(s, rid, status, recs, jobs) ==
    sub' = [sub EXCEPT ![s].pc = "done", ![s].resp_rid = rid,
                       ![s].resp_status = status,
                       ![s].ret_status = IF sub[s].rid = EmptyId THEN "absent"
                                         ELSE recs[sub[s].rid].status,
                       ![s].ret_job = IF sub[s].rid = EmptyId THEN "none"
                                      ELSE jobs[sub[s].rid]]

\* make.py:42-66: what process_request does with the filter result
FilterGate_FlaggedProceeds(outcome) ==
    CASE outcome = "error" -> "rejected"
      [] OTHER -> "proceed"

FilterGate(outcome) ==
    CASE outcome = "error" -> "rejected"      \* success is False
      [] outcome = "flagged" -> "rejected"    \* is_allowed is False
      [] OTHER -> "proceed"

\* make.py:39-66: content filtering and the two rejection responses
PR_Filter(s) ==
    /\ sub[s].pc = "start"
    /\ \E outcome \in {"error", "flagged", "allowed"} :
         IF FilterGate(outcome) = "rejected"
         THEN sub' = [sub EXCEPT ![s].pc = "done", ![s].filter = outcome,
                                 ![s].resp_rid = EmptyId,
                                 ![s].resp_status = "rejected"]
         ELSE sub' = [sub EXCEPT ![s].pc = "approved", ![s].filter = outcome]
    /\ UNCHANGED <<client, polls, records, next_uuid, job, tries, worker, restarts, callbacks>>
    /\ UnchangedMgr

\* make.py:68-74: copy request.user_number to the user and commit.  The read
\* raises AttributeError when the request object has no user_number attribute
\* (MakeWebhookRequest, schemas/make_integration.py:8-18, declares none) and
\* the commit can fail; both end in the outer handler, make.py:172-181.
PR_UpdateUser(s) ==
    /\ sub[s].pc = "approved"
    /\ \E raised \in BOOLEAN :
         IF raised
         THEN Respond(s, EmptyId, "error", records, job)
         ELSE sub' = [sub EXCEPT ![s].pc = "create"]
    /\ UNCHANGED <<client, polls, records, next_uuid, job, tries, worker, restarts, callbacks>>
    /\ UnchangedMgr

\* make.py:76-100: draw a uuid4, create the record with status "requested",
\* send the first notification (its failure is only logged).
PR_Create(s) ==
    /\ sub[s].pc = "create"
    /\ next_uuid < MaxSubmissions
    /\ LET rid == next_uuid + 1 IN
       \E dbok \in BOOLEAN, ok \in BOOLEAN :
         /\ next_uuid' = rid
         /\ IF dbok
            THEN /\ records' = [records EXCEPT ![rid] = NewRecord("requested")]
                 /\ sub' = [sub EXCEPT ![s].pc = "pool", ![s].rid = rid,
                                        ![s].created = TRUE]
                 /\ (active_connections[rid] = NoConn => ok)
                 /\ StoreMgr(API, SendMessage(Mgr(API), rid,
                         Msg("status_update", "requested", NULL, NULL), ok))
            ELSE /\ ok
                 /\ Respond(s, EmptyId, "error", records, job)
                 /\ UNCHANGED records
                 /\ UnchangedMgr
    /\ UNCHANGED <<client, polls, job, tries, worker, restarts, callbacks>>

\* make.py:104: create_pool(settings.redis_settings)
PR_CreatePool(s) ==
    /\ sub[s].pc = "pool"
    /\ \E ok \in BOOLEAN :
         sub' = [sub EXCEPT ![s].pc = IF ok THEN "mark" ELSE "qerr"]
    /\ UNCHANGED <<client, polls, records, next_uuid, job, tries, worker, restarts, callbacks>>
    /\ UnchangedMgr

\* make.py:106-121: status "processing" and its notification; an exception of
\* send_message lands in the except clause of make.py:135.
PR_MarkProcessing(s) ==
    /\ sub[s].pc = "mark"
    /\ LET rid == sub[s].rid IN
       \E ok \in BOOLEAN :
         /\ (active_connections[rid] = NoConn => ok)
         /\ records' = [records EXCEPT
                ![rid] = UpdatedStatus(@, "processing", NULL, NULL, NULL)]
         /\ LET M == SendMessage(Mgr(API), rid,
                         Msg("status_update", "processing", NULL, NULL), ok)
            IN /\ StoreMgr(API, M)
               /\ sub' = [sub EXCEPT ![s].pc = IF M.raised THEN "qerr" ELSE "enqueue"]
    /\ UNCHANGED <<client, polls, next_uuid, job, tries, worker, restarts, callbacks>>

\* make.py:123-133: redis_pool.enqueue_job('generate_strategy', ...)
PR_Enqueue_PlacedThenRaised(s) ==
    /\ sub[s].pc = "enqueue"
    /\ \E ok \in BOOLEAN :
         /\ job' = [job EXCEPT ![sub[s].rid] = "queued"]
         /\ sub' = IF ok THEN [sub EXCEPT ![s].pc = "ret", ![s].enqueued = TRUE]
                   ELSE [sub EXCEPT ![s].pc = "qerr"]
    /\ UNCHANGED <<client, polls, records, next_uuid, tries, worker, restarts, callbacks>>
    /\ UnchangedMgr

PR_Enqueue(s) ==
    /\ sub[s].pc = "enqueue"
    /\ \E ok \in BOOLEAN :
         IF ok
         THEN /\ job' = [job EXCEPT ![sub[s].rid] = "queued"]
              /\ sub' = [sub EXCEPT ![s].pc = "ret", ![s].enqueued = TRUE]
         ELSE /\ sub' = [sub EXCEPT ![s].pc = "qerr"]
              /\ UNCHANGED job
    /\ UNCHANGED <<client, polls, records, next_uuid, tries, worker, restarts, callbacks>>
    /\ UnchangedMgr

\* make.py:135-162: the except clause of the queueing block; an exception of
\* its status write (rolled back and re-raised, make_service.py:110-113) or
\* of its send_message reaches the outer handler, make.py:172-181.
PR_QueueError(s) ==
    /\ sub[s].pc = "qerr"
    /\ LET rid == sub[s].rid IN
       \E dbok \in BOOLEAN, ok \in BOOLEAN :
         IF dbok
         THEN /\ (active_connections[rid] = NoConn => ok)
              /\ records' = [records EXCEPT
                     ![rid] = UpdatedStatus(@, "error", NULL, "queue_error", NULL)]
              /\ LET M == SendMessage(Mgr(API), rid,
                              Msg("error", "error", NULL, NULL), ok)
                 IN /\ StoreMgr(API, M)
                    /\ Respond(s, IF M.raised THEN EmptyId ELSE rid, "error",
                                records', job)
         ELSE /\ ok
              /\ Respond(s, EmptyId, "error", records, job)
              /\ UNCHANGED records
              /\ UnchangedMgr
    /\ UNCHANGED <<client, polls, next_uuid, job, tries, worker, restarts, callbacks>>

\* make.py:164-170: the immediate "processing" response
PR_Return(s) ==
    /\ sub[s].pc = "ret"
    /\ Respond(s, sub[s].rid, "processing", records, job)
    /\ UNCHANGED <<client, polls, records, next_uuid, job, tries, worker, restarts, callbacks>>
    /\ UnchangedMgr

\* ------------------------------------------------ job queue and worker
\* worker.py:25-51 send_realtime_status: the message send_message is given;
\* an error argument turns the type into "error".  Exceptions are logged.
RealtimeStatus(M, r, status, error) ==
    SendMessage(M, r, Msg(IF error # NULL THEN "error" ELSE "status_update",
                          status, NULL, NULL), TRUE)

\* The job queue after an invocation of r ended with an exception: it is
\* run again until max_tries invocations were started (worker.py:556, 269).
AfterFailure(r, started) ==
    [job EXCEPT ![r] = IF started < ARQ_MAX_TRIES THEN "queued" ELSE "none"]

\* The error a stage client returns with success=false in the explored
\* failures: researcher_agent.py:197 with status code 500, strategy_agent.py:308
ResearchError == "Research API error: 500"
StrategyError == "ADK agent returned empty result"

\* worker.py:112, 171: the message of the exception raised for a failed stage
ResearchFailed(error_msg) == "Research failed: " \o error_msg
StrategyFailed(error_msg) == "Strategy generation failed: " \o error_msg

\* worker.py:272-278: the finally clause of generate_strategy.  db is TRUE
\* while the invocation holds an open storage session; the result is whether
\* it still is open when the invocation has ended.
W_Finally_NoClose(db) == db

W_Finally(db) == IF db THEN FALSE ELSE db

\* worker.py:243-278: the except clause of generate_strategy (error event,
\* error status when a session is open and the record exists, re-raise) and
\* the finally clause.
W_Except_StatusKept(M, r, error_msg, db) ==
    /\ StoreMgr(WORKER, RealtimeStatus(M, r, "error", error_msg))
    /\ records' = records
    /\ job' = AfterFailure(r, tries[r])
    /\ worker' = [IdleWorker EXCEPT !.raised = error_msg, !.db = W_Finally(db)]

W_Except(M, r, error_msg, db) ==
    /\ StoreMgr(WORKER, RealtimeStatus(M, r, "error", error_msg))
    /\ records' = IF db /\ HasRecord(r)
                  THEN [records EXCEPT
                          ![r] = UpdatedStatus(@, "error", NULL, error_msg, NULL)]
                  ELSE records
    /\ job' = AfterFailure(r, tries[r])
    /\ worker' = [IdleWorker EXCEPT !.raised = error_msg, !.db = W_Finally(db)]

\* worker.py:54-93: the queue hands a job to the worker; input validation,
\* storage session, the first two status messages.
W_Start(r) ==
    /\ worker.pc = "idle"
    /\ job[r] = "queued"
    /\ tries' = [tries EXCEPT ![r] = @ + 1]
    /\ \E dbok \in BOOLEAN :
         IF dbok
         THEN /\ job' = [job EXCEPT ![r] = "running"]
              /\ worker' = [pc |-> "research", rid |-> r, db |-> TRUE,
                            sources_text |-> "", raised |-> ""]
              /\ StoreMgr(WORKER,
                    RealtimeStatus(RealtimeStatus(Mgr(WORKER), r, "processing", NULL),
                                   r, "processing", NULL))
              /\ UNCHANGED records
         ELSE /\ StoreMgr(WORKER,
                    RealtimeStatus(RealtimeStatus(Mgr(WORKER), r, "error", NULL),
                                   r, "error", "db_connection_failed"))
              /\ job' = AfterFailure(r, tries[r] + 1)
              /\ UNCHANGED <<records, worker>>
    /\ UNCHANGED <<client, polls, next_uuid, sub, restarts, callbacks>>

\* worker.py:95-151: the research stage, the sources write and the messages
\* up to the synthesis call.
W_Research ==
    /\ worker.pc = "research"
    /\ LET r == worker.rid IN
       \E outcome \in {"failed", "sources", "no_sources"} :
         CASE outcome = "failed" ->
                W_Except(RealtimeStatus(Mgr(WORKER), r, "error", ResearchError),
                         r, ResearchFailed(ResearchError), worker.db)
           [] outcome = "sources" ->
                /\ records' = IF HasRecord(r)
                              THEN [records EXCEPT
                                      ![r] = UpdatedSources(@, "research_sources")]
                              ELSE records
                /\ StoreMgr(WORKER,
                      RealtimeStatus(RealtimeStatus(RealtimeStatus(Mgr(WORKER),
                        r, "processing", NULL), r, "processing", NULL),
                        r, "processing", NULL))
                /\ worker' = [worker EXCEPT !.pc = "synthesis",
                                            !.sources_text = "research_sources"]
                /\ UNCHANGED job
           [] outcome = "no_sources" ->
                /\ StoreMgr(WORKER,
                      RealtimeStatus(RealtimeStatus(Mgr(WORKER),
                        r, "processing", NULL), r, "processing", NULL))
                /\ worker' = [worker EXCEPT !.pc = "synthesis"]
                /\ UNCHANGED <<records, job>>
    /\ UNCHANGED <<client, polls, next_uuid, sub, tries, restarts, callbacks>>

\* worker.py:173-189: the terminal write, up to the await of worker.py:191
W_Complete(M, r) ==
    /\ records' = [records EXCEPT
           ![r] = UpdatedStatus(@, "completed", "strategy", NULL, NULL)]
    /\ StoreMgr(WORKER, M)
    /\ worker' = [worker EXCEPT !.pc = "publish"]
    /\ UNCHANGED job

\* worker.py:153-209: the synthesis stage and the terminal write
W_Synthesis ==
    /\ worker.pc = "synthesis"
    /\ LET r == worker.rid IN
       \E success \in BOOLEAN :
         IF ~success
         THEN W_Except(RealtimeStatus(Mgr(WORKER), r, "error", StrategyError),
                       r, StrategyFailed(StrategyError), worker.db)
         ELSE IF HasRecord(r)
         THEN W_Complete(RealtimeStatus(Mgr(WORKER), r, "processing", NULL), r)
         ELSE W_Except(RealtimeStatus(RealtimeStatus(Mgr(WORKER),
                         r, "processing", NULL), r, "error", "not_found"),
                       r, "not_found", worker.db)
    /\ UNCHANGED <<client, polls, next_uuid, sub, tries, restarts, callbacks>>

\* worker.py:191-241: the "saving" status message and the completion message
\* with the result and the sources; the invocation returns.
W_Publish ==
    /\ worker.pc = "publish"
    /\ LET r == worker.rid
           srcs == IF worker.sources_text # "" THEN worker.sources_text ELSE NULL
       IN  StoreMgr(WORKER, SendMessage(RealtimeStatus(Mgr(WORKER), r, "processing", NULL),
                r, Msg("strategy_complete", "completed", "strategy", srcs), TRUE))
    /\ job' = [job EXCEPT ![worker.rid] = "none"]
    /\ worker' = [IdleWorker EXCEPT !.db = W_Finally(worker.db)]
    /\ UNCHANGED <<client, polls, records, next_uuid, sub, tries, restarts, callbacks>>

\* worker.py:555 job_timeout: the queue cancels the invocation at an await.
\* CancelledError is not an Exception, so only the finally clause
\* (worker.py:272-278) runs; the try counts against max_tries.
W_Timeout ==
    /\ worker.pc \in {"research", "synthesis", "publish"}
    /\ job' = AfterFailure(worker.rid, tries[worker.rid])
    /\ worker' = [IdleWorker EXCEPT !.db = W_Finally(worker.db)]
    /\ UNCHANGED <<client, polls, records, next_uuid, sub, tries, restarts, callbacks>>
    /\ UnchangedMgr

\* worker.py:569-590 on_startup of a restarted worker process: the running
\* invocation is gone with the old process, its manager starts empty, and
\* flushdb() empties redis unless it raises.
W_Restart ==
    /\ restarts < MaxRestarts
    /\ restarts' = restarts + 1
    /\ worker' = IdleWorker
    /\ \E flushed \in BOOLEAN :
         IF flushed
         THEN /\ job' = [r \in RequestIds |-> "none"]
              /\ tries' = [r \in RequestIds |-> 0]
         ELSE /\ job' = [r \in RequestIds |->
                            IF job[r] = "running" THEN "queued" ELSE job[r]]
              /\ UNCHANGED tries
    /\ cached_messages' = [cached_messages EXCEPT
                             ![WORKER] = [r \in RequestIds |-> <<>>]]
    /\ send_count' = [send_count EXCEPT ![WORKER] = [r \in RequestIds |-> 0]]
    /\ UNCHANGED <<client, polls, records, next_uuid, sub, callbacks,
                   active_connections, connection_timestamps, conn>>

\* ------------------------------------------------------ legacy callbacks
\* Bodies POST /callback/{request_id} is explored with: a text body, a JSON
\* body without "result", a JSON body with another status.
CallbackBodies ==
    { [status |-> "completed", result |-> "callback_result", error |-> NULL],
      [status |-> "error", result |-> "", error |-> "callback_error"],
      [status |-> "rejected", result |-> "", error |-> NULL] }

\* make.py:183-244 handle_callback
HandleCallback(r) ==
    /\ r <= next_uuid
    /\ callbacks < MaxCallbacks
    /\ callbacks' = callbacks + 1
    /\ \E body \in CallbackBodies, ok \in BOOLEAN :
         IF HasRecord(r)
         THEN /\ (active_connections[r] = NoConn => ok)
              /\ records' = [records EXCEPT
                    ![r] = UpdatedStatus(@, body.status, body.result, body.error, NULL)]
              /\ StoreMgr(API, SendMessage(Mgr(API), r,
                    CallbackMsg(body.status, body.result), ok))
         ELSE /\ ok /\ body.status = "completed"
              /\ UNCHANGED records
              /\ UnchangedMgr
    /\ UNCHANGED <<client, polls, next_uuid, sub, job, tries, worker, restarts>>

\* make.py:469-476: the text stored for a list of sources
SourcesText(sources_array) ==
    IF sources_array = "empty" THEN "" ELSE "callback_sources"

\* make.py:459-510 handle_sources_callback
HandleSourcesCallback(r) ==
    /\ r <= next_uuid
    /\ callbacks < MaxCallbacks
    /\ callbacks' = callbacks + 1
    /\ \E sources_array \in {"empty", "urls"}, ok \in BOOLEAN :
         IF HasRecord(r)
         THEN /\ (active_connections[r] = NoConn => ok)
              /\ records' = [records EXCEPT
                    ![r] = UpdatedSources(@, SourcesText(sources_array))]
              /\ StoreMgr(API, SendMessage(Mgr(API), r,
                    CallbackMsg(records[r].status, records[r].result), ok))
         ELSE /\ ok /\ sources_array = "empty"
              /\ UNCHANGED records
              /\ UnchangedMgr
    /\ UNCHANGED <<client, polls, next_uuid, sub, job, tries, worker, restarts>>

\* ------------------------------------------- /ws/{request_id} (API process)
\* A message the endpoint sends with websocket.send_json, past the manager
Direct(type, status, result) ==
    [type |-> type, status |-> status, result |-> result, sources |-> NULL,
     n |-> 0]

\* request_id r was handed to a caller in a response of process_request
Returned(r) == \E s \in Submissions : sub[s].pc = "done" /\ sub[s].resp_rid = r

\* The list object the replay loop of connection c iterates
ReplayList(c) ==
    IF conn[c].list = "live" THEN cached_messages[API][conn[c].rid]
    ELSE conn[c].old

\* websocket.py:18-43 ConnectionManager.connect up to its first await inside
\* the replay loop: accept, register (replacing an earlier connection of the
\* same request_id), start replaying the cache.
WS_Connect(c, r) ==
    /\ conn[c].pc = "new"
    /\ \A d \in Conns : d < c => conn[d].pc # "new"
    /\ r <= next_uuid
    /\ active_connections' = [active_connections EXCEPT ![r] = c]
    /\ connection_timestamps' = [connection_timestamps EXCEPT ![r] = TRUE]
    /\ LET cache == cached_messages[API][r] IN
       IF cache = <<>>
       THEN conn' = [conn EXCEPT ![c].pc = "check", ![c].rid = r,
                                 ![c].known = Returned(r),
                                 ![c].at_connect = records[r].status]
       ELSE \E ok \in BOOLEAN :
              conn' = [conn EXCEPT
                 ![c].rid = r,
                 ![c].known = Returned(r),
                 ![c].at_connect = records[r].status,
                 ![c].pc = IF ok THEN "replay" ELSE "check",
                 ![c].i = 1,
                 ![c].pre = cache,
                 ![c].io_ok = ok,
                 ![c].received = IF ok THEN Append(@, cache[1]) ELSE @]
    /\ UNCHANGED <<client, polls, records, next_uuid, sub, job, tries, worker, restarts,
                   callbacks, cached_messages, send_count>>

\* websocket.py:33-39: the replay loop resumes after an awaited send_json and
\* sends the next element of the list it iterates, or ends.
WS_Replay(c) ==
    /\ conn[c].pc = "replay"
    /\ LET list == ReplayList(c) IN
       IF conn[c].i < Len(list)
       THEN \E ok \in BOOLEAN :
              conn' = [conn EXCEPT
                 ![c].i = @ + 1,
                 ![c].pc = IF ok THEN "replay" ELSE "check",
                 ![c].io_ok = @ /\ ok,
                 ![c].received = IF ok THEN Append(@, list[conn[c].i + 1]) ELSE @]
       ELSE conn' = [conn EXCEPT ![c].pc = "check"]
    /\ UNCHANGED <<client, polls, records, next_uuid, sub, job, tries, worker, restarts,
                   callbacks, active_connections, connection_timestamps,
                   cached_messages, send_count>>

\* make.py:45-56 disconnect as called from the finally clause, make.py:456
WS_Finally(c) ==
    LET M == Disconnected(Mgr(API), conn[c].rid)
    IN  active_connections' = M.ac /\ connection_timestamps' = M.ts

\* ProcessingStatus (schemas/make_integration.py:45-53) declares no sources
\* field, so reading status.sources raises AttributeError.
StatusHasSources == FALSE

\* make.py:302-358: the initial status check of websocket_endpoint.  sent is
\* the outcome of the websocket.send_json it makes.
WS_Check(c) ==
    /\ conn[c].pc = "check"
    /\ LET r == conn[c].rid
           st == records[r].status
       IN \E sent \in BOOLEAN :
          CASE st = "absent" ->
                 /\ conn' = [conn EXCEPT ![c].pc = "done", ![c].io_ok = @ /\ sent,
                       ![c].received = IF sent
                          THEN Append(@, Direct("error", "none", NULL)) ELSE @]
                 /\ WS_Finally(c)
            [] st = "completed" ->
                 /\ conn' = [conn EXCEPT ![c].pc = "done", ![c].io_ok = @ /\ sent,
                       ![c].received =
                          IF ~sent THEN @
                          ELSE IF StatusHasSources
                          THEN Append(@, Direct("strategy_complete", "completed",
                                                records[r].result))
                          ELSE Append(@, Direct("error", "none", NULL))]
                 /\ WS_Finally(c)
            [] st = "error" ->
                 /\ conn' = [conn EXCEPT ![c].pc = "done", ![c].io_ok = @ /\ sent,
                       ![c].received = IF sent
                          THEN Append(@, Direct("error", "error", NULL)) ELSE @]
                 /\ WS_Finally(c)
            [] OTHER ->
                 IF sent
                 THEN /\ conn' = [conn EXCEPT ![c].pc = "open",
                            ![c].last_status = st, ![c].poll = "running",
                            ![c].received = Append(@, Direct("status_update", st, NULL))]
                      /\ UNCHANGED <<active_connections, connection_timestamps>>
                 ELSE /\ conn' = [conn EXCEPT ![c].pc = "done", ![c].io_ok = FALSE]
                      /\ WS_Finally(c)
    /\ UNCHANGED <<client, polls, records, next_uuid, sub, job, tries, worker, restarts,
                   callbacks, cached_messages, send_count>>

\* make.py:363-411 poll_status: one round that finds a change (or no record)
WS_Poll(c) ==
    /\ conn[c].pc = "open"
    /\ conn[c].poll = "running"
    /\ LET r == conn[c].rid
           st == records[r].status
       IN /\ st # conn[c].last_status
          /\ \E sent \in BOOLEAN :
              CASE st = "absent" ->
                     /\ sent
                     /\ conn' = [conn EXCEPT ![c].poll = "stopped"]
                [] st = "completed" ->
                     conn' = [conn EXCEPT ![c].poll = "stopped",
                        ![c].io_ok = @ /\ (StatusHasSources => sent),
                        ![c].received =
                           IF StatusHasSources /\ sent
                           THEN Append(@, Direct("strategy_complete", "completed",
                                                 records[r].result))
                           ELSE @]
                [] st = "error" ->
                     conn' = [conn EXCEPT ![c].poll = "stopped",
                        ![c].io_ok = @ /\ sent,
                        ![c].received = IF sent
                           THEN Append(@, Direct("error", "error", NULL)) ELSE @]
                [] OTHER ->
                     conn' = [conn EXCEPT
                        ![c].poll = IF sent THEN "running" ELSE "stopped",
                        ![c].io_ok = @ /\ sent,
                        ![c].last_status = IF sent THEN st ELSE @,
                        ![c].received = IF sent
                           THEN Append(@, Direct("status_update", st, NULL)) ELSE @]
    /\ UNCHANGED <<client, polls, records, next_uuid, sub, job, tries, worker, restarts,
                   callbacks, active_connections, connection_timestamps,
                   cached_messages, send_count>>

\* make.py:425-457: the receive loop ends (idle timeout or the client went
\* away) and the finally clause runs.
WS_Close(c) ==
    /\ conn[c].pc = "open"
    /\ conn' = [conn EXCEPT ![c].pc = "done", ![c].poll = "stopped"]
    /\ WS_Finally(c)
    /\ UNCHANGED <<client, polls, records, next_uuid, sub, job, tries, worker, restarts,
                   callbacks, cached_messages, send_count>>

\* ------------------------------------------- GET /status/{request_id}
\* schemas/make_integration.py:45-53: the fields ProcessingStatus declares;
\* keyword arguments for other names are dropped by the model class.
ProcessingStatusFields ==
    {"request_id", "status", "message", "result", "error", "created_at",
     "completed_at"}

\* Reading status.user_id raises AttributeError unless the field is declared
StatusHasUserId == "user_id" \in ProcessingStatusFields

\* make.py:246-262 get_status for request r, called by the user who
\* submitted it ("owner") or by another authenticated user ("other").
\* An exception that leaves the handler is answered 500 by the framework.
GetStatus(r, caller) ==
    /\ polls' =
         LET call == [rid |-> r, caller |-> caller, found |-> HasRecord(r),
                      seen |-> records[r].status, code |-> 0, body |-> "none"]
         IN  IF ~HasRecord(r) THEN [call EXCEPT !.code = 404]
             ELSE IF ~StatusHasUserId THEN [call EXCEPT !.code = 500]
             ELSE IF caller # "owner" THEN [call EXCEPT !.code = 403]
             ELSE [call EXCEPT !.code = 200, !.body = records[r].status]
    /\ UNCHANGED <<client, records, next_uuid, sub, job, tries, worker,
                   restarts, callbacks>>
    /\ UnchangedMgr

\* --------------------------------------- the push notifier on its own
\* websocket.py:58-111: ConnectionManager.send_message called in the API
\* process with a message that has no timestamp of its own (as the callback
\* handlers and any other caller of the global manager can).
SendsSinceConnect(r) ==
    LET cs == {c \in Conns : conn[c].pc # "new" /\ conn[c].rid = r}
        at(c) == IF conn[c].pre = <<>> THEN 0
                 ELSE conn[c].pre[Len(conn[c].pre)].n
    IN  IF cs = {} THEN 0
        ELSE send_count[API][r] - at(CHOOSE c \in cs : TRUE)

ManagerSend(r) ==
    /\ r <= next_uuid
    /\ \A s \in Submissions : sub[s].pc = "done"
    /\ send_count[API][r] < MaxSends
    /\ SendsSinceConnect(r) < MaxLiveSends
    /\ \E ok \in BOOLEAN :
         /\ (active_connections[r] = NoConn => ok)
         /\ StoreMgr(API, SendMessage(Mgr(API), r,
                CallbackMsg(records[r].status, NULL), ok))
    /\ UNCHANGED <<client, polls, records, next_uuid, sub, job, tries, worker, restarts,
                   callbacks>>

\* websocket.py:160-177 cleanup_old_connections, run hourly in the API
\* process (websocket.py:204-212): the requests in old are those whose
\* connection timestamp is older than max_age_hours.  A replay loop that
\* iterates a deleted list keeps iterating that list object.
CleanupOldConnections ==
    /\ \E old \in (SUBSET {r \in RequestIds : connection_timestamps[r]}) \ {{}} :
         /\ cached_messages' = [cached_messages EXCEPT
                ![API] = [r \in RequestIds |-> IF r \in old THEN <<>> ELSE @[r]]]
         /\ connection_timestamps' =
                [r \in RequestIds |-> IF r \in old THEN FALSE
                                      ELSE connection_timestamps[r]]
         /\ conn' = [c \in Conns |->
                IF conn[c].pc = "replay" /\ conn[c].rid \in old
                   /\ conn[c].list = "live"
                THEN [conn[c] EXCEPT !.list = "old",
                                     !.old = cached_messages[API][conn[c].rid]]
                ELSE conn[c]]
    /\ UNCHANGED <<client, polls, records, next_uuid, sub, job, tries, worker, restarts,
                   callbacks, active_connections, send_count>>

\* ------------------------------------------------------- AI stage clients
\* One call of conduct_research_async or of generate_strategy_async, as the
\* worker makes it, followed step by step.
MAX_RETRIES == 3         \* researcher_agent.py:27
RETRY_DELAY == 5         \* researcher_agent.py:28
BackoffCap == 120        \* researcher_agent.py:185

service_vars == <<records, next_uuid, sub, job, tries, worker, restarts,
                  callbacks, active_connections, connection_timestamps,
                  cached_messages, send_count, conn, polls>>

Min(a, b) == IF a < b THEN a ELSE b

\* researcher_agent.py:185: the wait after a 429 answer to attempt number
\* attempt (0-based)
Backoff_Fixed(attempt) == RETRY_DELAY

Backoff(attempt) == Min(RETRY_DELAY * (2 ^ attempt), BackoffCap)

\* What an HTTP request of the research client can end with: a well-formed
\* 200 answer, a 200 answer whose body is not JSON or lacks
\* choices[0].message.content, 429, another status code, a timeout of httpx,
\* any other exception of the transport.
Responses == {"200_ok", "200_malformed", "429", "500", "timeout", "exception"}

\* The structured result a stage client returns
ClientReturn(success, error) ==
    [client EXCEPT !.pc = "returned", !.success = success, !.error = error]

\* researcher_agent.py:280 and 40-50: ResearcherAgent(db) raises ValueError
\* when settings.PERPLEXITY_API_KEY is empty; conduct_research_async calls
\* the constructor outside any try.
RC_Construct ==
    /\ client.pc = "idle"
    /\ \E has_key \in BOOLEAN :
         client' = IF has_key
                   THEN [client EXCEPT !.pc = "prompt", !.kind = "research"]
                   ELSE [client EXCEPT !.pc = "raised", !.kind = "research",
                                       !.error = "PERPLEXITY_API_KEY is required"]
    /\ UNCHANGED service_vars

\* researcher_agent.py:66-78: the prompt is read from the database
RC_Prompt ==
    /\ client.pc = "prompt"
    /\ \E found \in BOOLEAN :
         client' = IF found
                   THEN [client EXCEPT !.pc = "loop"]
                   ELSE ClientReturn(FALSE, "Research prompt not found in database")
    /\ UNCHANGED service_vars

\* The error returned when the last attempt ended with resp
\* (researcher_agent.py:197, 207, 216)
AttemptError(resp) ==
    CASE resp = "500" -> ResearchError
      [] resp = "timeout" -> "Request timeout after all retries"
      [] OTHER -> "Unexpected error: "

\* researcher_agent.py:140-218: one round of the retry loop of
\* _make_research_request
RC_Attempt ==
    /\ client.pc = "loop"
    /\ client.attempt < MAX_RETRIES
    /\ \E resp \in Responses :
         LET attempt == client.attempt
             made == [client EXCEPT !.posts = @ + 1,
                                    !.responses = Append(@, resp)]
             retry(delay) == [made EXCEPT !.attempt = @ + 1,
                                          !.delays = Append(@, delay)]
             done(success, error) ==
                 [made EXCEPT !.pc = "returned", !.success = success,
                              !.error = error]
         IN  client' =
               CASE resp = "200_ok" -> done(TRUE, "")
                 [] resp = "429" -> retry(Backoff(attempt))
                 [] OTHER ->
                      IF attempt = MAX_RETRIES - 1
                      THEN done(FALSE, AttemptError(resp))
                      ELSE retry(RETRY_DELAY)
    /\ UNCHANGED service_vars

\* researcher_agent.py:220-223: the loop ended without a return
RC_Exhausted ==
    /\ client.pc = "loop"
    /\ client.attempt = MAX_RETRIES
    /\ client' = ClientReturn(FALSE, "All retry attempts failed")
    /\ UNCHANGED service_vars

\* strategy_agent.py:371 and 154-203: StrategyGeneratorAgent(db) raises
\* ImportError without the ADK package and re-raises what the ADK components
\* raise; generate_strategy_async calls it outside any try.
SC_Construct ==
    /\ client.pc = "idle"
    /\ \E ok \in BOOLEAN :
         client' = IF ok
                   THEN [client EXCEPT !.pc = "generate", !.kind = "strategy"]
                   ELSE [client EXCEPT !.pc = "raised", !.kind = "strategy",
                                       !.error = "Google ADK is required"]
    /\ UNCHANGED service_vars

\* strategy_agent.py:261-317: StrategyGeneratorAgent.generate_strategy
SC_Generate ==
    /\ client.pc = "generate"
    /\ \E outcome \in {"invalid_research", "exception", "empty", "content"} :
         client' =
           CASE outcome = "invalid_research" ->
                  ClientReturn(FALSE, "Invalid research output provided")
             [] outcome = "exception" ->
                  ClientReturn(FALSE, "ADK strategy generation failed")
             [] outcome = "empty" -> ClientReturn(FALSE, StrategyError)
             [] OTHER -> ClientReturn(TRUE, "")
    /\ UNCHANGED service_vars

\* ------------------------------------------------------------ specification
\* The submission endpoint
SubmitNext ==
    \/ \E s \in Submissions : PR_Filter(s)
    \/ \E s \in Submissions : PR_UpdateUser(s)
    \/ \E s \in Submissions : PR_Create(s)
    \/ \E s \in Submissions : PR_CreatePool(s)
    \/ \E s \in Submissions : PR_MarkProcessing(s)
    \/ \E s \in Submissions : PR_Enqueue(s)
    \/ \E s \in Submissions : PR_QueueError(s)
    \/ \E s \in Submissions : PR_Return(s)

\* The job queue and the worker process
WorkerNext ==
    \/ \E r \in RequestIds : W_Start(r)
    \/ W_Research
    \/ W_Synthesis
    \/ W_Publish
    \/ W_Timeout
    \/ W_Restart

\* The legacy callback endpoints
CallbackNext ==
    \/ \E r \in RequestIds : HandleCallback(r)
    \/ \E r \in RequestIds : HandleSourcesCallback(r)

\* The stream endpoint
StreamNext ==
    \/ \E c \in FirstConns, r \in RequestIds : WS_Connect(c, r)
    \/ \E c \in FirstConns : WS_Replay(c)
    \/ \E c \in FirstConns : WS_Check(c)
    \/ \E c \in FirstConns : WS_Poll(c)
    \/ \E c \in FirstConns : WS_Close(c)

\* The stream endpoint with the client connecting again
ReconnectStreamNext ==
    \/ \E c \in Conns, r \in RequestIds : WS_Connect(c, r)
    \/ \E c \in Conns : WS_Replay(c)
    \/ \E c \in Conns : WS_Check(c)
    \/ \E c \in Conns : WS_Poll(c)
    \/ \E c \in Conns : WS_Close(c)

\* The writers of the job record store and of the queue
Next == SubmitNext \/ WorkerNext \/ CallbackNext

Spec == Init /\ [][Next]_vars

\* The API process: the senders and the readers of its push notifier
PushNext == SubmitNext \/ CallbackNext \/ StreamNext

PushSpec == Init /\ [][PushNext]_vars

\* The worker pipeline as seen over the stream endpoint
PipelineNext == SubmitNext \/ WorkerNext \/ StreamNext

PipelineSpec == Init /\ [][PipelineNext]_vars

\* ------------------------------------------------ record retention sweep
\* make_service.py:337: time passes until created_at of the row of r lies
\* before utcnow() - days
CutoffPasses(r) ==
    /\ HasRecord(r)
    /\ ~records[r].aged
    /\ records' = [records EXCEPT ![r].aged = TRUE]
    /\ UNCHANGED <<client, polls, next_uuid, sub, job, tries, worker, restarts, callbacks>>
    /\ UnchangedMgr

\* make_service.py:340-343: the filter of the bulk delete
Deletable_AnyStatus(row) == row.status # "absent" /\ row.aged

Deletable(row) == row.aged /\ row.status \in {"completed", "failed", "error"}

\* MakeService.cleanup_old_requests: delete and commit, or roll back when the
\* storage raises
CleanupOldRequests ==
    /\ \E dbok \in BOOLEAN :
         records' = IF dbok
                    THEN [r \in RequestIds |->
                            IF Deletable(records[r]) THEN NoRecord ELSE records[r]]
                    ELSE records
    /\ UNCHANGED <<client, polls, next_uuid, sub, job, tries, worker, restarts, callbacks>>
    /\ UnchangedMgr

\* The push notifier of the API process under many sends and the sweep
NotifierNext ==
    \/ SubmitNext
    \/ StreamNext
    \/ \E r \in RequestIds : ManagerSend(r)
    \/ CleanupOldConnections

NotifierSpec == Init /\ [][NotifierNext]_vars

\* Submission and the worker, without callbacks
QueueNext == SubmitNext \/ WorkerNext

QueueSpec == Init /\ [][QueueNext]_vars

\* Submission and the stream endpoint of a client that reconnects
ReconnectNext == SubmitNext \/ ReconnectStreamNext

ReconnectSpec == Init /\ [][ReconnectNext]_vars

\* The polling endpoint and the retention sweep next to the writers of the
\* API process
StatusNext ==
    \/ SubmitNext
    \/ CallbackNext
    \/ \E r \in RequestIds, caller \in {"owner", "other"} : GetStatus(r, caller)
    \/ \E r \in RequestIds : CutoffPasses(r)
    \/ CleanupOldRequests

StatusSpec == Init /\ [][StatusNext]_vars

\* A stage client call on its own
ClientNext ==
    \/ RC_Construct
    \/ RC_Prompt
    \/ RC_Attempt
    \/ RC_Exhausted
    \/ SC_Construct
    \/ SC_Generate

ClientSpec == Init /\ [][ClientNext]_vars

\* ===================================================================== claims
Enqueued(r) == \E s \in Submissions : sub[s].rid = r /\ sub[s].enqueued

\* C1: for every JobRecord, result is non-null if and only if status is
\* "completed", in every reachable state.
C1_ResultIffCompleted ==
    \A r \in RequestIds :
        HasRecord(r) => (records[r].result # NULL <=> records[r].status = "completed")

\* The position of a status on requested -> processing -> terminal
StatusRank(st) ==
    CASE st = "absent" -> 0
      [] st = "requested" -> 1
      [] st = "processing" -> 2
      [] st \in TerminalStatuses -> 3
      [] OTHER -> 4

\* C2: every status change of a JobRecord moves forward along
\* requested -> processing -> {completed | error | failed}; none leaves a
\* terminal status and no record takes the status "rejected".
C2_StatusOnlyForward ==
    [][\A r \in RequestIds :
          records'[r].status # records[r].status =>
             /\ StatusRank(records'[r].status) <= 3
             /\ StatusRank(records[r].status) < StatusRank(records'[r].status)]_vars

\* C3: once a JobRecord has a terminal status, no later write changes its
\* status, result or error.
C3_TerminalWriteOnce ==
    [][\A r \in RequestIds :
          records[r].status \in TerminalStatuses =>
             /\ records'[r].status = records[r].status
             /\ records'[r].result = records[r].result
             /\ records'[r].error = records[r].error]_vars

\* C4: once sources of a request is non-empty, no later write makes it empty
\* or null.
C4_SourcesNeverCleared ==
    [][\A r \in RequestIds :
          records[r].sources \notin {NULL, ""} =>
             records'[r].sources \notin {NULL, ""}]_vars

\* The messages of a received list that came through send_message or replay
ManagerEvents(seq) == SelectSeq(seq, LAMBDA m : m.n > 0)

IsPrefix(a, b) == Len(a) <= Len(b) /\ SubSeq(b, 1, Len(a)) = a

\* C5: a client that connects after N events were cached receives those N
\* events, in send order, before any event sent during or after the connect
\* (as long as no send on its websocket failed).
C5_ReplayBeforeLive ==
    \A c \in Conns :
        (conn[c].pc # "new" /\ conn[c].io_ok) =>
            LET got == ManagerEvents(conn[c].received)
            IN  IsPrefix(got, conn[c].pre) \/ IsPrefix(conn[c].pre, got)

\* C6: a submission whose moderation check errors or flags the content is
\* answered with status rejected and an empty request_id, and creates no
\* JobRecord and no job; every record and job belongs to an approved one.
C6_RejectedCreatesNothing ==
    /\ \A s \in Submissions :
          sub[s].filter \in {"error", "flagged"} =>
             /\ sub[s].pc = "done"
             /\ sub[s].resp_status = "rejected"
             /\ sub[s].resp_rid = EmptyId
             /\ sub[s].rid = EmptyId
             /\ ~sub[s].created
             /\ ~sub[s].enqueued
    /\ \A r \in RequestIds :
          (HasRecord(r) \/ job[r] # "none") =>
             \E s \in Submissions : sub[s].rid = r /\ sub[s].filter = "allowed"

\* C6 witness: a submission the filter flagged has been answered
C6_Witness ==
    \E s \in Submissions :
        sub[s].pc = "done" /\ sub[s].filter = "flagged"

\* C7: when enqueueing fails the record is at "error" when the response is
\* returned and the response says "error"; no submission ends with its record
\* at requested or processing while no job is queued for it.
C7_NoStuckSubmission ==
    \A s \in Submissions :
        (sub[s].pc = "done" /\ sub[s].created) =>
            /\ ~sub[s].enqueued =>
                  (sub[s].ret_status = "error" /\ sub[s].resp_status = "error")
            /\ ~(sub[s].ret_status \in {"requested", "processing"}
                  /\ sub[s].ret_job = "none")

\* C8: every submission that moderation approves has created its JobRecord
\* when the response is returned.
C8_ApprovedCreatesRecord ==
    \A s \in Submissions :
        (sub[s].pc = "done" /\ sub[s].filter = "allowed") =>
            (sub[s].created /\ sub[s].rid # EmptyId /\ HasRecord(sub[s].rid))

\* C9: once the Job Queue holds no more work for an enqueued request, its
\* JobRecord has a terminal status.
C9_QueueDoneMeansTerminal ==
    \A r \in RequestIds :
        (Enqueued(r) /\ job[r] = "none") => records[r].status \in TerminalStatuses

\* C10: a client that stays connected to /ws/{request_id} of an accepted
\* submission has received a strategy_complete event with the result once the
\* record is completed and the endpoint has noticed the change.
C10_CompletionStreamed ==
    \A c \in Conns, s \in Submissions :
        ( /\ sub[s].resp_status = "processing"
          /\ conn[c].rid = sub[s].resp_rid /\ conn[c].known
          /\ conn[c].pc = "open" /\ conn[c].io_ok
          /\ conn[c].poll = "stopped"
          /\ records[conn[c].rid].status = "completed" )
        => \E i \in 1..Len(conn[c].received) :
              /\ conn[c].received[i].type = "strategy_complete"
              /\ conn[c].received[i].status = "completed"
              /\ conn[c].received[i].result \notin {NULL, ""}

\* C11: a client that connects when the JobRecord is already terminal has
\* received, when the endpoint is done with it, exactly one event: the final
\* event of that status (for completed, strategy_complete with the stored
\* result); the endpoint then closes the connection.
C11_TerminalConnectOneEvent ==
    \A c \in Conns :
        ( /\ conn[c].at_connect \in TerminalStatuses
          /\ conn[c].pc \notin {"new", "replay", "check"}
          /\ conn[c].io_ok )
        => /\ conn[c].pc = "done"
           /\ Len(conn[c].received) = 1
           /\ records[conn[c].rid].status = "completed" =>
                 /\ conn[c].received[1].type = "strategy_complete"
                 /\ conn[c].received[1].result = records[conn[c].rid].result
           /\ records[conn[c].rid].status = "error" =>
                 conn[c].received[1].type = "error"

\* C12: a second or later run of generate_strategy for a request_id leaves
\* status and result of the JobRecord as the earlier run left them (no other
\* writer being involved): no step of such a run changes them.
C12_RerunSameOutcome ==
    [][\A r \in RequestIds :
          ( /\ worker.pc # "idle" /\ worker.rid = r
            /\ tries[r] >= 2
            /\ callbacks = 0 /\ callbacks' = 0
            /\ records[r].status \in TerminalStatuses )
          => /\ records'[r].status = records[r].status
             /\ records'[r].result = records[r].result]_vars

\* text contains piece as a substring
Contains(text, piece) ==
    \E i \in 1..(Len(text) - Len(piece) + 1) :
        SubSeq(text, i, i + Len(piece) - 1) = piece

CompletionSent(p, r) ==
    /\ send_count'[p][r] > send_count[p][r]
    /\ LET cache == cached_messages'[p][r]
       IN  cache # <<>> /\ cache[Len(cache)].type = "strategy_complete"

\* C14: in a successful invocation the sources write precedes the terminal
\* write, and the completion event is sent only after status completed has
\* been committed: whenever a completion event is sent, the record of the
\* request is at status completed.
C14_CompletionAfterCommit ==
    [][\A r \in RequestIds :
          /\ ( worker.rid = r /\ worker.pc = "synthesis" /\ worker'.pc = "publish"
                /\ worker.sources_text # "" )
             => records[r].sources # NULL
          /\ (\E p \in Procs : CompletionSent(p, r))
             => ( records[r].status = "completed"
                  /\ records'[r].status = "completed" )]_vars

\* Every HTTP request of the research client so far was answered 429
AllRateLimited ==
    /\ client.kind = "research"
    /\ client.responses # <<>>
    /\ \A i \in 1..Len(client.responses) : client.responses[i] = "429"

\* C15: when every answer is HTTP 429, _make_research_request makes exactly
\* 3 attempts, waits base_delay * 2^attempt capped at 120 seconds after
\* attempt number attempt, each wait longer than the one before until the
\* cap, and returns success=false without raising.
C15_RateLimitBackoff ==
    AllRateLimited =>
        /\ client.pc # "raised"
        /\ client.posts <= 3
        /\ Len(client.delays) = client.posts
        /\ \A i \in 1..Len(client.delays) :
              client.delays[i] = Min(RETRY_DELAY * (2 ^ (i - 1)), 120)
        /\ \A i \in 1..(Len(client.delays) - 1) :
              client.delays[i] < client.delays[i + 1] \/ client.delays[i] = 120
        /\ client.posts = 3 => client.attempt = 3
        /\ client.pc = "returned" => (client.posts = 3 /\ ~client.success)

\* C15 witness: three 429 answers, the call has returned
C15_Witness ==
    AllRateLimited /\ client.pc = "returned" /\ client.posts = 3

\* C16: after an HTTP 200 answer with a malformed body the research client
\* makes no further attempt: it has returned success=false, without a wait
\* and without raising.
C16_MalformedNotRetried ==
    \A i \in 1..Len(client.responses) :
        client.responses[i] = "200_malformed" =>
            /\ i = Len(client.responses)
            /\ client.pc = "returned"
            /\ ~client.success
            /\ Len(client.delays) = i - 1

\* C17: a stage client call never ends with an exception in the worker; it
\* returns a structured result on every path.
C17_ClientNeverRaises ==
    client.pc # "raised"

\* C18: in each process the cache of each request_id holds at most 50
\* events, they are consecutive sends in send order ending with the latest
\* event sent since the cache was last emptied, and each carries a timestamp.
C18_CacheBounded ==
    \A p \in Procs, r \in RequestIds :
        LET cache == cached_messages[p][r]
        IN  /\ Len(cache) <= 50
            /\ \A i \in 1..Len(cache) : cache[i].timestamp
            /\ \A i \in 1..(Len(cache) - 1) : cache[i + 1].n = cache[i].n + 1
            /\ cache # <<>> => cache[Len(cache)].n = send_count[p][r]

\* C18 witness: more than 50 events were sent for a request and the oldest
\* were evicted
C18_Witness ==
    \E r \in RequestIds :
        /\ send_count[API][r] > 50
        /\ Len(cached_messages[API][r]) = 50
        /\ cached_messages[API][r][1].n = send_count[API][r] - 49

\* A step in which a send_message call of the API process for request r
\* found a connection registered and did not deliver to it
FailedDelivery(r) ==
    /\ active_connections[r] # NoConn
    /\ send_count'[API][r] > send_count[API][r]
    /\ conn'[active_connections[r]].received = conn[active_connections[r]].received

\* C19: every send_message call leaves its event in the cache of the
\* request, with or without a connection; when the live delivery fails the
\* connection reference of the request is removed and the cache still ends
\* with the event just sent.
C19_CachedBeforeDelivery ==
    [][\A p \in Procs, r \in RequestIds :
          send_count'[p][r] > send_count[p][r] =>
             LET cache == cached_messages'[p][r]
             IN  /\ \A k \in (send_count[p][r] + 1)..send_count'[p][r] :
                       \E i \in 1..Len(cache) : cache[i].n = k
                 /\ cache[Len(cache)].n = send_count'[p][r]
                 /\ (p = API /\ FailedDelivery(r)) =>
                       /\ active_connections'[r] = NoConn
                       /\ ~connection_timestamps'[r]]_vars

\* C19 witness: a send_message call failed to deliver to a connection whose
\* handler is still running: the reference is gone, the event is cached and
\* was not received
C19_Witness ==
    \E c \in Conns :
        LET r == conn[c].rid
            cache == cached_messages[API][r]
        IN  /\ conn[c].pc \in {"replay", "check", "open"}
            /\ active_connections[r] = NoConn
            /\ cache # <<>>
            /\ cache[Len(cache)].n = send_count[API][r]
            /\ \A i \in 1..Len(conn[c].received) :
                  conn[c].received[i].n # send_count[API][r]

\* C20: a failed delivery of the "processing" notification in
\* process_request does not change what happens to the record and the job:
\* the handler goes on to enqueue the job, as it does after a delivery that
\* succeeded, and the record stays at processing.
C20_SendFailureNotSurfaced ==
    [][\A s \in Submissions :
          (sub[s].pc = "mark" /\ FailedDelivery(sub[s].rid)) =>
             /\ sub'[s].pc = "enqueue"
             /\ records'[sub[s].rid].status = "processing"]_vars

\* C21: a step that disconnects request r (its connection reference goes
\* away) leaves the cached events of r in place, leaves every other
\* request_id alone, and leaves the cache of r eligible for the age-based
\* sweep, which looks requests up in connection_timestamps.
C21_DisconnectKeepsCache ==
    [][\A r \in RequestIds :
          (active_connections[r] # NoConn /\ active_connections'[r] = NoConn) =>
             /\ IsPrefix(cached_messages[API][r], cached_messages'[API][r])
                \/ cached_messages'[API][r]
                      = LastN(cached_messages[API][r], CacheCap - 1)
                        \o <<cached_messages'[API][r][Len(cached_messages'[API][r])]>>
             /\ \A q \in RequestIds \ {r} :
                   /\ active_connections'[q] = active_connections[q]
                   /\ cached_messages'[API][q] = cached_messages[API][q]
                   /\ connection_timestamps'[q] = connection_timestamps[q]
             /\ (cached_messages'[API][r] # <<>> /\ connection_timestamps[r])
                   => connection_timestamps'[r]]_vars

\* C22: the sweep can remove the cached events of every request_id, be it
\* connected, disconnected or never connected: every request that has cached
\* events is among those a run of cleanup_old_connections looks at.
C22_SweepReachesEveryCache ==
    \A r \in RequestIds :
        cached_messages[API][r] # <<>> => connection_timestamps[r]

\* C23: GET /status/{request_id} answers 404 when no record has the id, 200
\* with the record's current status when the caller owns the record, 403
\* when the record belongs to another user; it answers 200 to nobody else.
C23_StatusProjection ==
    polls.caller # "none" =>
        /\ ~polls.found => polls.code = 404
        /\ (polls.found /\ polls.caller = "owner") =>
              (polls.code = 200 /\ polls.body = polls.seen)
        /\ (polls.found /\ polls.caller # "owner") => polls.code = 403
        /\ polls.code = 200 => polls.caller = "owner"

\* C24: a step that deletes a job record is a step of cleanup_old_requests,
\* and the record it deletes has a terminal status (completed, failed, error)
\* and a created_at before the cutoff; a requested or processing record is
\* never deleted.
C24_OnlyOldTerminalDeleted ==
    [][\A r \in RequestIds :
         (HasRecord(r) /\ ~HasRecord(r)') =>
            /\ records[r].status \in TerminalStatuses
            /\ records[r].aged
            /\ CleanupOldRequests]_vars

\* A submission created a record and the sweep has deleted it.
C24_Witness ==
    \E s \in Submissions :
        sub[s].created /\ sub[s].rid # EmptyId /\ ~HasRecord(sub[s].rid)

\* C25: every event in a cache of a manager or delivered to a client has a
\* type that is one of status_update, progress_update, strategy_chunk,
\* strategy_complete, error, heartbeat.
C25_EventTypes ==
    LET Types == {"status_update", "progress_update", "strategy_chunk",
                  "strategy_complete", "error", "heartbeat"}
    IN /\ \A p \in Procs, r \in RequestIds :
            \A i \in 1..Len(cached_messages[p][r]) :
                cached_messages[p][r][i].type \in Types
       /\ \A c \in Conns :
            \A i \in 1..Len(conn[c].received) : conn[c].received[i].type \in Types

\* C26: an invocation of generate_strategy that cannot open a storage session
\* leaves the record of its request_id as it was and ends with an exception
\* (the queue runs the job again while tries are left); and whenever an
\* invocation has ended, the session it opened is closed.
C26_NoSessionNoWrite ==
    [][/\ \A r \in RequestIds :
            (tries'[r] = tries[r] + 1 /\ worker'.pc = "idle") =>
                /\ records'[r] = records[r]
                /\ job'[r] = IF tries'[r] < ARQ_MAX_TRIES THEN "queued" ELSE "none"
       /\ (worker'.pc = "idle" => ~worker'.db)]_vars

\* An invocation failed to open its session (the two error events of
\* worker.py:71-74 and 248-255 are all its manager cached) with the record
\* present, and an invocation that had a session has ended.
C26_Witness ==
    \E r \in RequestIds :
        /\ restarts = 0
        /\ HasRecord(r)
        /\ worker.pc = "idle"
        /\ tries[r] = 2
        /\ Len(cached_messages[WORKER][r]) > 2
        /\ cached_messages[WORKER][r][1].status = "error"
        /\ worker.raised # ""

\* C27: when the handler of an earlier connection of a request_id ends while
\* a later connection of that request_id is registered and its handler runs,
\* the later connection stays registered.
C27_NewerConnectionKept ==
    [][\A c, d \in Conns :
         (/\ c < d
          /\ conn[d].pc \in {"replay", "check", "open"}
          /\ conn[d].rid = conn[c].rid
          /\ active_connections[conn[d].rid] = d
          /\ conn[c].pc # "done"
          /\ conn'[c].pc = "done")
         => active_connections'[conn[d].rid] = d]_vars

\* C28: over one connection no event sent with send_message is delivered
\* twice: the events a client received from the manager (n numbers the
\* send_message calls of a request_id) are pairwise distinct.
C28_DeliveredAtMostOnce ==
    \A c \in Conns :
        \A i, j \in 1..Len(conn[c].received) :
            (i < j /\ conn[c].received[i].n > 0) =>
                conn[c].received[i].n # conn[c].received[j].n

\* C29: a response of process_request carries request_id "" exactly when the
\* submission created no job record.
C29_EmptyIdIffNoRecord ==
    \A s \in Submissions :
        sub[s].pc = "done" => (sub[s].resp_rid = EmptyId <=> ~sub[s].created)

\* C30: process_request places the job on the queue with the record already
\* marked processing, and a step of process_request taken once the job of its
\* request_id is on the queue or has been started by the worker writes
\* nothing to the record.
C30_NoWriteAfterEnqueue ==
    [][\A s \in Submissions :
         LET r == sub[s].rid IN
         /\ (r # EmptyId /\ job[r] = "none" /\ job'[r] = "queued" /\ sub'[s] # sub[s])
                => records[r].status = "processing"
         /\ (r # EmptyId /\ sub'[s] # sub[s] /\ (job[r] # "none" \/ tries[r] > 0))
                => records'[r] = records[r]]_vars

\* The worker has written a terminal status while process_request has not
\* returned yet.
C30_Witness ==
    \E s \in Submissions :
        /\ sub[s].pc = "ret"
        /\ tries[sub[s].rid] > 0
        /\ records[sub[s].rid].status \in {"completed", "error"}

====
